---------------------------- MODULE Spec2Model ----------------------------
(***************************************************************************)
(* gosplit: the budget splitter, splitChunk of main.go, as a state machine. *)
(*                                                                         *)
(* A string is a sequence of one-character strings.  A *Chunk is an        *)
(* address into heap; the Chunk it points to is heap[address].             *)
(* One behaviour is one call splitChunk(chunk, maxTokens): Init is the     *)
(* state at entry, each action is one straight-line piece of the function  *)
(* (the guard, the whole-content count, one iteration of the line loop,    *)
(* one iteration of the word loop, the code after each loop).              *)
(***************************************************************************)
EXTENDS Integers, Sequences, FiniteSets, TLC

\* ------------------------------------------------------------------ bounds

\* Longest chunk content, in characters.
MaxLen == 5

\* Largest budget tried; budgets run from -1 (no limit) to MaxBudget.
MaxBudget == 3

\* ------------------------------------------------------------ text helpers

\* The characters of the model: two glyphs and the two whitespace characters
\* that matter to strings.Split(.., "\n") and strings.Fields.
Glyphs == {"a", "b"}

Spaces == {" ", "\n"}

Chars == Glyphs \cup Spaces

\* unicode.IsSpace, which strings.Fields splits on.
IsSpace(c) == c \in Spaces

\* Every string of at most n characters.
Strings(n) == UNION {[1..k -> Chars] : k \in 0..n}

\* Index of the first "\n" of s, or 0.
RECURSIVE IndexNL(_, _)
IndexNL(s, i) ==
    IF i > Len(s) THEN 0
    ELSE IF s[i] = "\n" THEN i
    ELSE IndexNL(s, i + 1)

\* strings.Split(s, "\n"): the pieces between newlines, empty pieces kept;
\* one more piece than there are newlines.
RECURSIVE SplitLines(_)
SplitLines(s) ==
    LET k == IndexNL(s, 1) IN
    IF k = 0 THEN <<s>>
    ELSE <<SubSeq(s, 1, k - 1)>> \o SplitLines(SubSeq(s, k + 1, Len(s)))

\* Length of the longest prefix of s, from position i, of non-space characters.
RECURSIVE WordEnd(_, _)
WordEnd(s, i) ==
    IF i > Len(s) \/ IsSpace(s[i]) THEN i - 1 ELSE WordEnd(s, i + 1)

\* strings.Fields(s): the maximal runs of non-space characters, in order;
\* runs of white space separate them and are dropped.
RECURSIVE Fields(_)
Fields(s) ==
    IF s = <<>> THEN <<>>
    ELSE IF IsSpace(s[1]) THEN Fields(Tail(s))
    ELSE LET e == WordEnd(s, 1) IN
         <<SubSeq(s, 1, e)>> \o Fields(SubSeq(s, e + 1, Len(s)))

\* strings.Builder: WriteString(sep) when the builder is not empty, then
\* WriteString(text).
WriteJoined(builder, sep, text) ==
    IF Len(builder) > 0 THEN builder \o <<sep>> \o text ELSE builder \o text

\* ------------------------------------------------------------ token counter

\* Tokens one character of s adds under the encoding, reduced to this alphabet:
\* glyph "a" is one token and glyph "b" two; a newline is a token of its own;
\* a space directly before a glyph merges into the glyph's first token, and
\* any other space is a token.  The count of a joined text is therefore not
\* the sum of the counts of its parts.
TokensAt(s, i) ==
    IF s[i] = "a" THEN 1
    ELSE IF s[i] = "b" THEN 2
    ELSE IF s[i] = "\n" THEN 1
    ELSE IF i < Len(s) /\ s[i + 1] \in Glyphs THEN 0
    ELSE 1

RECURSIVE SumTokens(_, _)
SumTokens(s, i) ==
    IF i > Len(s) THEN 0 ELSE TokensAt(s, i) + SumTokens(s, i + 1)

\* len(encoding.Encode(text, nil, nil)).
countTokens(text) == SumTokens(text, 1)

\* What one call countTokens(text) can return: the count with a nil error, or
\* (0, error) when the encoding cannot be obtained.
CountOutcomes(text) ==
    {[n |-> countTokens(text), err |-> FALSE], [n |-> 0, err |-> TRUE]}


\* ------------------------------------------------------------------- state

VARIABLES
    heap,               \* the Chunk records, by address
    maxTokens,          \* splitChunk's second parameter
    given,              \* the Chunk value *chunk held when splitChunk was called
    pc,                 \* where the call is: entry, count, lines, words, done
    lines, li,          \* lines and the index of the line loop
    currentChunk,       \* strings.Builder of the line accumulator
    currentTokenCount,  \* its running count
    words, wi,          \* words of the oversized line and the index of the word loop
    lineChunk,          \* strings.Builder of the word group
    lineTokenCount,     \* its running count
    chunks,             \* the local []*Chunk
    ret, err,           \* the returned ([]*Chunk, error); a nil slice is <<>>
    calls,              \* number of countTokens calls made so far
    counterFailed,      \* some countTokens call returned an error
    emitted             \* (Content, Size) written by each append to chunks, in order

\* extractChunks(file, src, fset)
VARIABLES
    xsrc,               \* src, the bytes of the file
    xdecls,             \* file.Decls, positions as the file set gives them
    xi,                 \* index of "for _, decl := range file.Decls"
    xchunks,            \* the local chunks: the Chunk each appended pointer refers to
    xlog,               \* per appended chunk: the declaration and spec index it came
                        \* from and the positions left, right handed to fset.Position
    xpc                 \* idle (no call), range (in the loop), done (returned)

\* run(cmd, args)
VARIABLES
    rfile,              \* the input file as os.ReadFile and the parser find it
    chunkSize,          \* the --chunk-size flag
    outputFile,         \* the --output flag
    rpc,                \* idle (no call), process, size, split, call (inside
                        \* splitChunk), create, write, done (returned)
    rheap,              \* the Chunk records extractChunks allocated, by address
    rchunks,            \* the local chunks, a []*Chunk
    ri,                 \* index of the loop in progress
    splitChunks,        \* the local splitChunks
    rret,               \* the returned error: its message, "nil", or "running"
    opened,             \* os.Create has made the output file
    output,             \* the JSON lines written, as the records encoded
    sized,              \* per chunk sized so far: did countTokens fail
    results,            \* per splitChunk call: the chunk it was made on and the
                        \* pointers it returned
    written             \* the pointers encoded so far, in order

locals == <<lines, li, currentChunk, currentTokenCount, words, wi, lineChunk, lineTokenCount>>

\* The variables of a splitChunk call.
svars == <<heap, maxTokens, given, pc, locals, chunks, ret, err, calls, counterFailed, emitted>>

\* The variables of an extractChunks call.
xvars == <<xsrc, xdecls, xi, xchunks, xlog, xpc>>

\* The variables of a run call.
rvars == <<rfile, chunkSize, outputFile, rpc, rheap, rchunks, ri, splitChunks, rret,
           opened, output, sized, results, written>>

vars == <<svars, xvars, rvars>>

\* No run call is in progress.
RunIdle ==
    /\ rfile = [readable |-> FALSE, parses |-> FALSE, extracted |-> <<>>]
    /\ chunkSize = 0 /\ outputFile = "" /\ rpc = "idle"
    /\ rheap = <<>> /\ rchunks = <<>> /\ ri = 0 /\ splitChunks = <<>>
    /\ rret = "running" /\ opened = FALSE /\ output = <<>>
    /\ sized = <<>> /\ results = <<>> /\ written = <<>>

\* No extractChunks call is in progress.
ExtractIdle ==
    xsrc = <<>> /\ xdecls = <<>> /\ xi = 0 /\ xchunks = <<>> /\ xlog = <<>> /\ xpc = "idle"

\* The address passed as the parameter chunk.
chunk == 1

\* The fields of Chunk other than Content and Size.
StaticFields == {"Type", "Name", "Path", "Receiver", "Lang", "Start", "End"}

\* A Chunk built as the tests build it (&Chunk{Content: .., Size: ..}) and one
\* built as extractChunks builds a method chunk; Path is still empty at the
\* time run calls splitChunk.
Statics ==
    { [Type |-> "", Name |-> "", Path |-> "", Receiver |-> "", Lang |-> "",
       Start |-> 0, End |-> 0],
      [Type |-> "method", Name |-> "String", Path |-> "", Receiver |-> "*User",
       Lang |-> "go", Start |-> 3, End |-> 5] }

Chunk(content, size, st) ==
    [Content |-> content, Size |-> size, Type |-> st.Type, Name |-> st.Name,
     Path |-> st.Path, Receiver |-> st.Receiver, Lang |-> st.Lang,
     Start |-> st.Start, End |-> st.End]

\* The chunks run hands to splitChunk: Size is the count of Content, or 0 when
\* the sizing pass could not count it.
InputChunks ==
    {Chunk(c, n, st) : c \in Strings(MaxLen), n \in {0}, st \in Statics}
    \cup {Chunk(c, countTokens(c), st) : c \in Strings(MaxLen), st \in Statics}

Budgets == (0 - 1)..MaxBudget

Init ==
    /\ ExtractIdle
    /\ RunIdle
    /\ given \in InputChunks
    /\ heap = <<given>>
    /\ maxTokens \in Budgets
    /\ pc = "entry"
    /\ lines = <<>> /\ li = 0
    /\ currentChunk = <<>> /\ currentTokenCount = 0
    /\ words = <<>> /\ wi = 0
    /\ lineChunk = <<>> /\ lineTokenCount = 0
    /\ chunks = <<>>
    /\ ret = <<>> /\ err = FALSE
    /\ calls = 0 /\ counterFailed = FALSE
    /\ emitted = <<>>

\* ------------------------------------------------------- pieces of the code

\* The guard written with < for <=: a budget of 0 is taken as a limit.
NoLimitStrict(max) == max < 0

\* maxTokens <= 0: no limit.
NoLimit(max) == max <= 0

\* The comparison written with < for <=: content exactly at the budget is split.
WithinLimitStrict(n, max) == n < max

\* tokenCount <= maxTokens: the content is within the limit.
WithinLimit(n, max) == n <= max

\* The error of countTokens dropped, as run's sizing pass drops it: the count 0
\* is used.
AbortsNever(r) == FALSE

\* if err != nil { return nil, err }
Aborts(r) == r.err

\* No line is taken as oversized: the word-level branch is never entered.
OversizedNever(n, max) == FALSE

\* lineTokenCount > maxTokens: a single line exceeds the limit.
Oversized(n, max) == n > max

\* The accumulator is never emitted before the words of an oversized line.
AccumulatedNever(builder) == FALSE

\* currentChunk.Len() > 0, tested before the words of an oversized line.
Accumulated(builder) == Len(builder) > 0

\* The test made on the accumulator alone, without the line about to be added.
LineWouldExceedCurrentOnly(cur, n, max) == cur > max

\* currentTokenCount+lineTokenCount > maxTokens
LineWouldExceed(cur, n, max) == cur + n > max

\* lineTokenCount+wordTokenCount > maxTokens
WordWouldExceed(cur, n, max) == cur + n > max

\* newChunk := chunk copies the pointer, not the Chunk.
newChunk == chunk

\* *newChunk = Chunk{Content: content, Size: size}: the other fields are zeroed.
EmitFresh(h, p, content, size) ==
    [h EXCEPT ![p] = Chunk(content, size, [Type |-> "", Name |-> "", Path |-> "",
                            Receiver |-> "", Lang |-> "", Start |-> 0, End |-> 0])]

\* newChunk.Content = content; newChunk.Size = size
Emit(h, p, content, size) == [h EXCEPT ![p].Content = content, ![p].Size = size]

\* The emission "newChunk := chunk; set Content and Size; chunks = append(chunks,
\* newChunk)", taken when do holds: the heap, chunks and the emission log after it.
Flushed(do, content, size) ==
    IF do
    THEN [heap |-> Emit(heap, newChunk, content, size),
          chunks |-> Append(chunks, newChunk),
          emitted |-> Append(emitted, [Content |-> content, Size |-> size])]
    ELSE [heap |-> heap, chunks |-> chunks, emitted |-> emitted]

\* return r, e
Return(r, e) == pc' = "done" /\ ret' = r /\ err' = e

\* One call of countTokens with outcome r.
Counted(r) == calls' = calls + 1 /\ counterFailed' = (counterFailed \/ r.err)

\* ------------------------------------------------------------------ actions

\* if maxTokens <= 0 { return []*Chunk{chunk}, nil }
CheckLimit ==
    /\ pc = "entry"
    /\ UNCHANGED <<xvars, rvars>>
    /\ IF NoLimit(maxTokens)
       THEN Return(<<chunk>>, FALSE)
       ELSE pc' = "count" /\ UNCHANGED <<ret, err>>
    /\ UNCHANGED <<heap, maxTokens, given, locals, chunks, calls, counterFailed, emitted>>

\* The whole-content count, the return when it fits, and strings.Split.
CountContent ==
    /\ pc = "count"
    /\ UNCHANGED <<xvars, rvars>>
    /\ \E r \in CountOutcomes(heap[chunk].Content) :
        /\ Counted(r)
        /\ IF Aborts(r)
           THEN Return(<<>>, TRUE) /\ UNCHANGED <<lines, li>>
           ELSE IF WithinLimit(r.n, maxTokens)
           THEN Return(<<chunk>>, FALSE) /\ UNCHANGED <<lines, li>>
           ELSE /\ lines' = SplitLines(heap[chunk].Content)
                /\ li' = 1
                /\ pc' = "lines"
                /\ UNCHANGED <<ret, err>>
    /\ UNCHANGED <<heap, maxTokens, given, currentChunk, currentTokenCount, words, wi,
                   lineChunk, lineTokenCount, chunks, emitted>>

\* One iteration of "for _, line := range lines", up to the word loop when the
\* line is oversized and to the end of the body otherwise.
NextLine ==
    /\ pc = "lines"
    /\ UNCHANGED <<xvars, rvars>>
    /\ li <= Len(lines)
    /\ \E r \in CountOutcomes(lines[li]) :
        /\ Counted(r)
        /\ IF Aborts(r)
           THEN /\ Return(<<>>, TRUE)
                /\ UNCHANGED <<heap, chunks, emitted, locals>>
           ELSE IF Oversized(r.n, maxTokens)
           THEN LET do == Accumulated(currentChunk)
                    f == Flushed(do, currentChunk, currentTokenCount)
                IN
                /\ heap' = f.heap /\ chunks' = f.chunks /\ emitted' = f.emitted
                /\ currentChunk' = IF do THEN <<>> ELSE currentChunk
                /\ currentTokenCount' = IF do THEN 0 ELSE currentTokenCount
                /\ words' = Fields(lines[li])
                /\ wi' = 1
                /\ lineChunk' = <<>>
                /\ lineTokenCount' = 0
                /\ pc' = "words"
                /\ UNCHANGED <<lines, li, ret, err>>
           ELSE LET do == LineWouldExceed(currentTokenCount, r.n, maxTokens)
                    f == Flushed(do, currentChunk, currentTokenCount)
                    builder == IF do THEN <<>> ELSE currentChunk
                    count == IF do THEN 0 ELSE currentTokenCount
                IN
                /\ heap' = f.heap /\ chunks' = f.chunks /\ emitted' = f.emitted
                /\ currentChunk' = WriteJoined(builder, "\n", lines[li])
                /\ currentTokenCount' = count + r.n
                /\ li' = li + 1
                /\ UNCHANGED <<pc, lines, words, wi, lineChunk, lineTokenCount, ret, err>>
    /\ UNCHANGED <<maxTokens, given>>

\* One iteration of "for _, word := range words".
NextWord ==
    /\ pc = "words"
    /\ UNCHANGED <<xvars, rvars>>
    /\ wi <= Len(words)
    /\ \E r \in CountOutcomes(words[wi]) :
        /\ Counted(r)
        /\ IF Aborts(r)
           THEN /\ Return(<<>>, TRUE)
                /\ UNCHANGED <<heap, chunks, emitted, locals>>
           ELSE LET do == WordWouldExceed(lineTokenCount, r.n, maxTokens) /\ Len(lineChunk) > 0
                    f == Flushed(do, lineChunk, lineTokenCount)
                    builder == IF do THEN <<>> ELSE lineChunk
                    count == IF do THEN 0 ELSE lineTokenCount
                IN
                /\ heap' = f.heap /\ chunks' = f.chunks /\ emitted' = f.emitted
                /\ lineChunk' = WriteJoined(builder, " ", words[wi])
                /\ lineTokenCount' = count + r.n
                /\ wi' = wi + 1
                /\ UNCHANGED <<pc, lines, li, currentChunk, currentTokenCount, words, ret, err>>
    /\ UNCHANGED <<maxTokens, given>>

\* After the word loop: the last word group is emitted, then "continue".
EndWords ==
    /\ pc = "words"
    /\ UNCHANGED <<xvars, rvars>>
    /\ wi > Len(words)
    /\ LET f == Flushed(Len(lineChunk) > 0, lineChunk, lineTokenCount) IN
       heap' = f.heap /\ chunks' = f.chunks /\ emitted' = f.emitted
    /\ li' = li + 1
    /\ pc' = "lines"
    /\ UNCHANGED <<maxTokens, given, lines, currentChunk, currentTokenCount, words, wi,
                   lineChunk, lineTokenCount, ret, err, calls, counterFailed>>

\* After the line loop: the last accumulator is emitted, then return chunks, nil.
EndLines ==
    /\ pc = "lines"
    /\ UNCHANGED <<xvars, rvars>>
    /\ li > Len(lines)
    /\ LET f == Flushed(Len(currentChunk) > 0, currentChunk, currentTokenCount) IN
       /\ heap' = f.heap /\ chunks' = f.chunks /\ emitted' = f.emitted
       /\ Return(f.chunks, FALSE)
    /\ UNCHANGED <<maxTokens, given, locals, calls, counterFailed>>

Next ==
    \/ CheckLimit
    \/ CountContent
    \/ NextLine
    \/ NextWord
    \/ EndWords
    \/ EndLines

Spec == Init /\ [][Next]_vars


\* ------------------------------------------------------------------ claims

\* The Chunk a returned pointer refers to.
Returned(i) == heap[ret[i]]

\* The call returned a sequence and no error.
ReturnedOk == pc = "done" /\ ~err

\* The call took the splitting path: positive budget, whole content over it.
SplitPath == maxTokens > 0 /\ countTokens(given.Content) > maxTokens

\* s with its white space removed.
NonSpace(s) == SelectSeq(s, LAMBDA c : ~IsSpace(c))

\* The contents of the returned chunks, concatenated in order.
RECURSIVE ConcatReturned(_)
ConcatReturned(i) ==
    IF i > Len(ret) THEN <<>> ELSE Returned(i).Content \o ConcatReturned(i + 1)

\* x occurs in s as a contiguous substring.
IsSubstring(x, s) ==
    \E i \in 1..(Len(s) + 1) : i + Len(x) - 1 <= Len(s) /\ SubSeq(s, i, i + Len(x) - 1) = x

\* s is one whitespace-delimited word.
IsSingleWord(s) == Len(s) > 0 /\ \A i \in 1..Len(s) : ~IsSpace(s[i])

\* Size within the budget, or a single word that alone exceeds it.
WithinBudget(content, size) ==
    \/ size <= maxTokens
    \/ IsSingleWord(content) /\ countTokens(content) > maxTokens

\* C1: for a positive budget, every returned sub-chunk has Size <= maxTokens
\* unless its content is a single whitespace-delimited word whose own count
\* exceeds maxTokens; the same holds of every emission at the time it is made.
C1_BudgetRespected ==
    (ReturnedOk /\ maxTokens > 0) =>
        /\ \A i \in 1..Len(ret) : WithinBudget(Returned(i).Content, Returned(i).Size)
        /\ \A i \in 1..Len(emitted) : WithinBudget(emitted[i].Content, emitted[i].Size)

\* C1 witness: a split returned several sub-chunks, the last an oversized word.
C1_Witness ==
    /\ ReturnedOk /\ SplitPath /\ Len(ret) >= 2
    /\ Returned(Len(ret)).Size > maxTokens
    /\ \E i \in 1..Len(emitted) : emitted[i].Size = maxTokens /\ ~IsSingleWord(emitted[i].Content)

\* C2 (as claimed): for a positive budget the returned contents, concatenated in
\* order, hold exactly the non-whitespace characters of the content passed in,
\* in the same order.
C2_Completeness ==
    (ReturnedOk /\ maxTokens > 0) => NonSpace(ConcatReturned(1)) = NonSpace(given.Content)

\* C3 (as claimed): once a sub-chunk has been appended to chunks no later
\* emission changes it: every entry still holds the content and size it was
\* appended with.
C3_EmissionsIndependent ==
    /\ Len(chunks) = Len(emitted)
    /\ \A i \in 1..Len(chunks) :
           /\ heap[chunks[i]].Content = emitted[i].Content
           /\ heap[chunks[i]].Size = emitted[i].Size

\* C4 (as claimed): when splitChunk has returned, the chunk it was given holds
\* the content and size it was passed in with.
C4_InputUnmodified ==
    pc = "done" => (heap[chunk].Content = given.Content /\ heap[chunk].Size = given.Size)

\* C5: with maxTokens <= 0 the call returns the one-element sequence holding the
\* input chunk, every field unchanged, no error, and countTokens is never called.
C5_NoLimitReturnsInput ==
    /\ (pc = "done" /\ maxTokens <= 0) =>
           (ret = <<chunk>> /\ heap[chunk] = given /\ ~err /\ calls = 0)
    /\ (pc # "entry" /\ maxTokens <= 0) => pc = "done"

\* C5 witness: a negative budget and a content far over any budget, returned.
C5_Witness ==
    /\ pc = "done" /\ maxTokens < 0
    /\ countTokens(given.Content) > MaxBudget /\ ret = <<chunk>>

\* C6: with a positive budget and a whole-content count <= maxTokens, the call
\* returns the one-element sequence holding the input chunk, every field
\* unchanged (Size as passed in), after exactly one countTokens call.
C6_WithinLimitReturnsInput ==
    /\ (ReturnedOk /\ maxTokens > 0 /\ countTokens(given.Content) <= maxTokens) =>
           (ret = <<chunk>> /\ heap[chunk] = given /\ calls = 1 /\ emitted = <<>>)
    /\ (maxTokens > 0 /\ countTokens(given.Content) <= maxTokens) => pc \in {"entry", "count", "done"}

\* C6 witness: the count equals the budget exactly and the Size passed in (0)
\* is not the count.
C6_Witness ==
    /\ ReturnedOk /\ maxTokens > 0 /\ countTokens(given.Content) = maxTokens
    /\ given.Size # countTokens(given.Content) /\ Returned(1).Size = given.Size

\* C7: once a countTokens call has failed, the call has returned the failure
\* and a nil sequence, and no further countTokens call is made.
C7_CountFailureAborts ==
    counterFailed => (pc = "done" /\ err /\ ret = <<>>)

\* C7 witness: the counter failed on a word, after sub-chunks had been emitted.
C7_Witness ==
    counterFailed /\ pc = "done" /\ Len(emitted) > 0 /\ wi >= 1 /\ wi <= Len(words) /\ ret = <<>>

\* C8: every returned sub-chunk has the Type, Name, Path, Receiver, Lang, Start
\* and End the input chunk was passed in with.
C8_StaticFieldsInherited ==
    ReturnedOk =>
        \A i \in 1..Len(ret) : \A f \in StaticFields : Returned(i)[f] = given[f]

\* C8 witness: a method chunk split into at least two sub-chunks.
C8_Witness ==
    ReturnedOk /\ Len(ret) >= 2 /\ given.Type = "method" /\ Returned(2).Receiver = "*User"

\* C9 (as claimed): on the splitting path every returned sub-chunk's Size is
\* the count countTokens reports for that sub-chunk's Content.
C9_SizeIsCountOfContent ==
    (ReturnedOk /\ SplitPath) =>
        \A i \in 1..Len(ret) : Returned(i).Size = countTokens(Returned(i).Content)

\* C10 (as claimed): the content of every returned sub-chunk is a contiguous
\* substring of the content the chunk was passed in with.
C10_ContentIsSubstring ==
    ReturnedOk => \A i \in 1..Len(ret) : IsSubstring(Returned(i).Content, given.Content)

\* The lines of the content passed in.
GivenLines == SplitLines(given.Content)

\* The words of the content passed in.
GivenWords == Fields(given.Content)

\* Words lo..hi of ws, joined by single spaces.
RECURSIVE JoinWords(_, _, _)
JoinWords(ws, lo, hi) ==
    IF lo > hi THEN <<>>
    ELSE IF lo = hi THEN ws[lo]
    ELSE ws[lo] \o <<" ">> \o JoinWords(ws, lo + 1, hi)

\* The smaller of two integers.
Least(x, y) == IF x <= y THEN x ELSE y

\* ceil(n / m) for m > 0.
CeilDiv(n, m) == (n + m - 1) \div m

\* The chunk passed in has two lines, each of a positive count <= the budget.
TwoFittingLines ==
    /\ maxTokens > 0
    /\ Len(GivenLines) = 2
    /\ \A i \in 1..2 : countTokens(GivenLines[i]) > 0 /\ countTokens(GivenLines[i]) <= maxTokens

\* C11 (as claimed): two lines of positive counts a and b, each <= the budget,
\* give exactly 1 sub-chunk when a+b <= budget and otherwise exactly 2, the
\* first holding the first line alone and the second the second line alone.
C11_TwoLines ==
    (ReturnedOk /\ TwoFittingLines) =>
        IF countTokens(GivenLines[1]) + countTokens(GivenLines[2]) <= maxTokens
        THEN Len(ret) = 1
        ELSE /\ Len(ret) = 2
             /\ Returned(1).Content = GivenLines[1]
             /\ Returned(2).Content = GivenLines[2]

\* The chunk passed in is one line of one-token words whose count exceeds the
\* budget.
OneLineOfUnitWords ==
    /\ maxTokens > 0
    /\ Len(GivenLines) = 1
    /\ Len(GivenWords) > 0
    /\ \A i \in 1..Len(GivenWords) : countTokens(GivenWords[i]) = 1
    /\ countTokens(given.Content) > maxTokens

\* C12 (as claimed): one line of n one-token words over the budget m gives
\* exactly ceil(n/m) sub-chunks, the i-th holding words (i-1)m+1 .. min(im, n)
\* of the line, a group of its own.
C12_WordGroups ==
    (ReturnedOk /\ OneLineOfUnitWords) =>
        /\ Len(ret) = CeilDiv(Len(GivenWords), maxTokens)
        /\ \A i \in 1..Len(ret) :
               Returned(i).Content =
                   JoinWords(GivenWords, (i - 1) * maxTokens + 1,
                             Least(i * maxTokens, Len(GivenWords)))

\* ---------------------------------------------- extractChunks: parsed files

\* Most top-level declarations in a file.
MaxDecls == 2

\* token.NoPos.
NoPos == 0

\* A nil *ast.CommentGroup.
NoComment == [present |-> FALSE, Pos |-> NoPos, End |-> NoPos]

\* The comment group written at bytes from..(from + Len(text) - 1) of a text:
\* Pos is its first byte, End the byte after its last.
CommentAt(from, text) == [present |-> TRUE, Pos |-> from, End |-> from + Len(text)]

\* The texts of a declaration's doc comment, a spec's doc comment and a
\* trailing line comment.
DeclDocText == <<"/", "/", "d">>

SpecDocText == <<"/", "/", "s">>

LineCommentText == <<"/", "/", "c">>

\* A doc comment and the newline after it, or nothing.
DocPrefix(hasDoc) == IF hasDoc THEN DeclDocText \o <<"\n">> ELSE <<>>

\* The receiver field lists the parser can produce: nil (a function), an empty
\* list "func () m()", and one entry whose type is a name, a pointer to a name,
\* an instantiated generic type or a pointer to one.
RecvKinds == {"none", "empty", "ident", "star", "index", "starindex"}

\* d.Recv for a receiver kind: present is Recv != nil, List holds the types of
\* the entries; an expression is its node kind, its Name (an *ast.Ident) and
\* the node kind and Name of its operand X (an *ast.StarExpr).
RecvOf(kind) ==
    LET ident == [node |-> "Ident", Name |-> "User"]
        index == [node |-> "IndexExpr", Name |-> ""]
        none == [node |-> "nil", Name |-> ""]
    IN
    [present |-> kind # "none",
     List |-> IF kind \in {"none", "empty"} THEN <<>>
              ELSE IF kind = "ident" THEN <<[node |-> "Ident", Name |-> "User", X |-> none]>>
              ELSE IF kind = "star" THEN <<[node |-> "StarExpr", Name |-> "", X |-> ident]>>
              ELSE IF kind = "index" THEN <<[node |-> "IndexExpr", Name |-> "", X |-> none]>>
              ELSE <<[node |-> "StarExpr", Name |-> "", X |-> index]>>]

\* The source text of a receiver kind.
RecvText(kind) ==
    IF kind = "none" THEN <<>>
    ELSE IF kind = "empty" THEN <<"(", ")">>
    ELSE IF kind = "ident" THEN <<"(", "U", ")">>
    ELSE IF kind = "star" THEN <<"(", "*", "U", ")">>
    ELSE IF kind = "index" THEN <<"(", "U", "[", "]", ")">>
    ELSE <<"(", "*", "U", "[", "]", ")">>

\* An *ast.FuncDecl and its text: an optional doc comment, then "func", the
\* receiver, the name and a two-line body.  Pos() is the func keyword, End()
\* the byte after the closing brace.
FuncTemplate(hasDoc, recv) ==
    LET pre == DocPrefix(hasDoc)
        text == pre \o <<"f">> \o RecvText(recv) \o <<"m", "{", "\n", "}">>
    IN
    [text |-> text,
     decl |-> [node |-> "FuncDecl", Tok |-> "func", Name |-> "Method",
               Pos |-> Len(pre) + 1, End |-> Len(text) + 1,
               Doc |-> IF hasDoc THEN CommentAt(1, DeclDocText) ELSE NoComment,
               Recv |-> RecvOf(recv),
               Lparen |-> NoPos, Rparen |-> NoPos, Specs |-> <<>>]]

\* The *ast.TypeSpec of each described spec, appended to text: an optional doc
\* comment of its own, the name, and a struct type (two-line body) or a named
\* type.  In a parenthesized declaration each spec ends its line.
RECURSIVE TypeSpecs(_, _, _)
TypeSpecs(descs, paren, text) ==
    IF descs = <<>> THEN [text |-> text, specs |-> <<>>]
    ELSE LET d == Head(descs)
             withDoc == IF d.doc THEN text \o SpecDocText \o <<"\n">> ELSE text
             after == withDoc \o (IF d.struct THEN <<d.name, "{", "\n", "}">>
                                  ELSE <<d.name, "i">>)
             spec == [node |-> "TypeSpec", Name |-> d.name,
                      Type |-> IF d.struct THEN "StructType" ELSE "Ident",
                      Doc |-> IF d.doc THEN CommentAt(Len(text) + 1, SpecDocText)
                              ELSE NoComment,
                      Comment |-> [present |-> FALSE, List |-> <<>>],
                      Pos |-> Len(withDoc) + 1, End |-> Len(after) + 1]
             rest == TypeSpecs(Tail(descs), paren,
                               IF paren THEN after \o <<"\n">> ELSE after)
         IN [text |-> rest.text, specs |-> <<spec>> \o rest.specs]

\* The *ast.ValueSpec of each described spec, appended to text: "x=1" and an
\* optional trailing line comment, which End() of the spec does not cover.
RECURSIVE ValueSpecs(_, _, _)
ValueSpecs(descs, paren, text) ==
    IF descs = <<>> THEN [text |-> text, specs |-> <<>>]
    ELSE LET d == Head(descs)
             body == text \o <<"x", "=", "1">>
             after == IF d.comment THEN body \o <<" ">> \o LineCommentText ELSE body
             spec == [node |-> "ValueSpec", Name |-> "x", Type |-> "",
                      Doc |-> NoComment,
                      Comment |-> IF d.comment
                                  THEN [present |-> TRUE,
                                        List |-> <<CommentAt(Len(body) + 2, LineCommentText)>>]
                                  ELSE [present |-> FALSE, List |-> <<>>],
                      Pos |-> Len(text) + 1, End |-> Len(body) + 1]
             rest == ValueSpecs(Tail(descs), paren,
                                IF paren THEN after \o <<"\n">> ELSE after)
         IN [text |-> rest.text, specs |-> <<spec>> \o rest.specs]

\* An *ast.GenDecl and its text: an optional doc comment, the keyword, and
\* either one spec or a parenthesized list of specs, one per line.  Pos() is
\* the keyword; End() is the byte after the closing parenthesis, or the End()
\* of the only spec.
GenTemplate(tok, hasDoc, paren, descs) ==
    LET pre == DocPrefix(hasDoc)
        head == pre \o <<"k">> \o (IF paren THEN <<"(", "\n">> ELSE <<>>)
        built == IF tok = "type" THEN TypeSpecs(descs, paren, head)
                 ELSE ValueSpecs(descs, paren, head)
        text == IF paren THEN built.text \o <<")">> ELSE built.text
    IN
    [text |-> text,
     decl |-> [node |-> "GenDecl", Tok |-> tok, Name |-> "",
               Pos |-> Len(pre) + 1,
               End |-> IF paren THEN Len(text) + 1 ELSE built.specs[1].End,
               Doc |-> IF hasDoc THEN CommentAt(1, DeclDocText) ELSE NoComment,
               Recv |-> RecvOf("none"),
               Lparen |-> IF paren THEN Len(pre) + 2 ELSE NoPos,
               Rparen |-> IF paren THEN Len(text) ELSE NoPos,
               Specs |-> built.specs]]

\* An import declaration: a *ast.GenDecl with token.IMPORT and one spec.
ImportTemplate ==
    [text |-> <<"k", "q">>,
     decl |-> [node |-> "GenDecl", Tok |-> "import", Name |-> "",
               Pos |-> 1, End |-> 3, Doc |-> NoComment, Recv |-> RecvOf("none"),
               Lparen |-> NoPos, Rparen |-> NoPos,
               Specs |-> <<[node |-> "ImportSpec", Name |-> "", Type |-> "",
                            Doc |-> NoComment,
                            Comment |-> [present |-> FALSE, List |-> <<>>],
                            Pos |-> 2, End |-> 3]>>]]

\* The declarations a file is made of.
FuncTemplates == {FuncTemplate(doc, r) : doc \in BOOLEAN, r \in RecvKinds}

TypeTemplates ==
    LET S(n, doc) == [name |-> n, struct |-> TRUE, doc |-> doc]
        I(n) == [name |-> n, struct |-> FALSE, doc |-> FALSE]
    IN
    {GenTemplate("type", doc, FALSE, <<S("U", FALSE)>>) : doc \in BOOLEAN}
    \cup {GenTemplate("type", FALSE, FALSE, <<I("I")>>)}
    \cup {GenTemplate("type", doc, TRUE, <<S("U", sdoc)>>) : doc, sdoc \in BOOLEAN}
    \cup {GenTemplate("type", FALSE, TRUE, <<S("U", FALSE), S("V", TRUE)>>),
          GenTemplate("type", FALSE, TRUE, <<S("U", FALSE), S("V", FALSE)>>),
          GenTemplate("type", TRUE, TRUE, <<I("I"), S("V", TRUE)>>),
          GenTemplate("type", FALSE, TRUE, <<>>)}

ValueTemplates ==
    LET V(c) == [comment |-> c] IN
    {GenTemplate("var", FALSE, FALSE, <<V(c)>>) : c \in BOOLEAN}
    \cup {GenTemplate("const", TRUE, FALSE, <<V(TRUE)>>),
          GenTemplate("const", FALSE, TRUE, <<V(FALSE), V(TRUE)>>),
          GenTemplate("var", FALSE, TRUE, <<V(TRUE), V(FALSE)>>),
          GenTemplate("const", TRUE, TRUE, <<V(FALSE)>>),
          GenTemplate("var", FALSE, TRUE, <<>>)}

Templates == FuncTemplates \cup TypeTemplates \cup ValueTemplates \cup {ImportTemplate}

\* A position of a template, moved to a text that starts base bytes into the file.
At(p, base) == IF p = NoPos THEN NoPos ELSE p + base

CommentMoved(c, base) == [c EXCEPT !.Pos = At(c.Pos, base), !.End = At(c.End, base)]

SpecMoved(sp, base) ==
    [sp EXCEPT !.Pos = At(sp.Pos, base), !.End = At(sp.End, base),
               !.Doc = CommentMoved(sp.Doc, base),
               !.Comment = [present |-> sp.Comment.present,
                            List |-> [k \in 1..Len(sp.Comment.List) |->
                                         CommentMoved(sp.Comment.List[k], base)]]]

DeclMoved(d, base) ==
    [d EXCEPT !.Pos = At(d.Pos, base), !.End = At(d.End, base),
              !.Doc = CommentMoved(d.Doc, base),
              !.Lparen = At(d.Lparen, base), !.Rparen = At(d.Rparen, base),
              !.Specs = [k \in 1..Len(d.Specs) |-> SpecMoved(d.Specs[k], base)]]

\* The file written from templates, one declaration after the other, each
\* followed by a newline, and the declarations parser.ParseFile returns for it.
\* The file's base in the file set is 1: the byte at offset o has position o+1.
RECURSIVE Layout(_, _, _)
Layout(tmpls, src, decls) ==
    IF tmpls = <<>> THEN [src |-> src, Decls |-> decls]
    ELSE Layout(Tail(tmpls), src \o Head(tmpls).text \o <<"\n">>,
                Append(decls, DeclMoved(Head(tmpls).decl, Len(src))))

\* The package clause, then the declarations.
ParseFile(tmpls) == Layout(tmpls, <<"p", "\n">>, <<>>)

\* The files that parse: one to MaxDecls declarations, an import declaration
\* only in front of every other declaration.
Files ==
    {ParseFile(ts) : ts \in {t \in UNION {[1..n -> Templates] : n \in 1..MaxDecls} :
                                 \A k \in 2..Len(t) : t[k] # ImportTemplate}}

\* ------------------------------------------------ extractChunks: the code

\* Number of newlines in s[1..n].
RECURSIVE NewlinesBefore(_, _)
NewlinesBefore(s, n) ==
    IF n <= 0 THEN 0
    ELSE (IF s[n] = "\n" THEN 1 ELSE 0) + NewlinesBefore(s, n - 1)

\* fset.Position(p): the zero Position for NoPos, else the offset p - base and
\* the 1-based line the file's line table gives for it.
Position(src, p) ==
    IF p = NoPos THEN [Offset |-> 0, Line |-> 0]
    ELSE [Offset |-> p - 1, Line |-> 1 + NewlinesBefore(src, p - 1)]

\* The slice taken with its upper bound included: src[lo:hi+1].
SliceInclusive(src, lo, hi) == SubSeq(src, lo + 1, hi + 1)

\* src[lo:hi]
Slice(src, lo, hi) == SubSeq(src, lo + 1, hi)

\* The builtins min and max.
min(x, y) == IF x <= y THEN x ELSE y

max(x, y) == IF x >= y THEN x ELSE y

\* New chunks put in front of the ones already there.
PrependTo(seq, more) == more \o seq

\* chunks = append(chunks, ...)
AppendTo(seq, more) == seq \o more

\* startPos := fset.Position(left); endPos := fset.Position(right);
\* content := string(src[startPos.Offset:endPos.Offset]); &Chunk{...}: the
\* chunk, with where it came from.
Emission(src, i, j, left, right, type, name, receiver) ==
    LET startPos == Position(src, left)
        endPos == Position(src, right)
    IN [chunk |-> Chunk(Slice(src, startPos.Offset, endPos.Offset), 0,
                        [Type |-> type, Name |-> name, Path |-> "",
                         Receiver |-> receiver, Lang |-> "go",
                         Start |-> startPos.Line, End |-> endPos.Line]),
        log |-> [decl |-> i, spec |-> j, left |-> left, right |-> right]]

\* left := d.Pos(), without the doc comment.
FuncLeftDeclOnly(d) == d.Pos

\* left := d.Pos(); if d.Doc != nil { left = min(left, d.Doc.Pos()) }
FuncLeft(d) == IF d.Doc.present THEN min(d.Pos, d.Doc.Pos) ELSE d.Pos

\* right := d.End(); if d.Doc != nil { right = max(right, d.Doc.End()) }
FuncRight(d) == IF d.Doc.present THEN max(d.End, d.Doc.End) ELSE d.End

\* d.Recv != nil && len(d.Recv.List) > 0
IsMethod(d) == d.Recv.present /\ Len(d.Recv.List) > 0

\* The pointer case without its "*": a pointer receiver reported as a value one.
ReceiverTypeNoStar(d) ==
    LET t == d.Recv.List[1] IN
    IF t.node = "Ident" THEN t.Name
    ELSE IF t.node = "StarExpr" /\ t.X.node = "Ident" THEN t.X.Name
    ELSE ""

\* The switch on d.Recv.List[0].Type.
ReceiverType(d) ==
    LET t == d.Recv.List[1] IN
    IF t.node = "Ident" THEN t.Name
    ELSE IF t.node = "StarExpr" /\ t.X.node = "Ident" THEN "*" \o t.X.Name
    ELSE ""

\* case *ast.FuncDecl
FuncEmissions(src, d, i) ==
    IF IsMethod(d)
    THEN <<Emission(src, i, 0, FuncLeft(d), FuncRight(d), "method", d.Name, ReceiverType(d))>>
    ELSE <<Emission(src, i, 0, FuncLeft(d), FuncRight(d), "function", d.Name, "")>>

\* The struct test left out: every type spec is taken.
IsAnyTypeSpec(sp) == sp.node = "TypeSpec"

\* typeSpec, ok := spec.(*ast.TypeSpec); _, ok = typeSpec.Type.(*ast.StructType)
IsStructSpec(sp) == sp.node = "TypeSpec" /\ sp.Type = "StructType"

\* The doc comments ignored: the chunk starts at the type keyword.
StructStartAtKeyword(d, sp) == d.Pos

\* startPos := d.Pos(); if d.Doc != nil: d.Doc.Pos(); else if typeSpec.Doc != nil:
\* typeSpec.Doc.Pos()
StructStart(d, sp) ==
    IF d.Doc.present THEN d.Doc.Pos
    ELSE IF sp.Doc.present THEN sp.Doc.Pos
    ELSE d.Pos

\* The end of the spec instead of the end of the declaration.
StructEndAtSpec(d, sp) == sp.End

\* right := d.End(), for every spec of the declaration.
StructEnd(d, sp) == d.End

\* case token.TYPE: for _, spec := range d.Specs, from spec j on.
RECURSIVE TypeEmissions(_, _, _, _)
TypeEmissions(src, d, i, j) ==
    IF j > Len(d.Specs) THEN <<>>
    ELSE IF IsStructSpec(d.Specs[j])
    THEN AppendTo(<<Emission(src, i, j, StructStart(d, d.Specs[j]),
                             StructEnd(d, d.Specs[j]), "struct",
                             d.Specs[j].Name, "")>>,
                  TypeEmissions(src, d, i, j + 1))
    ELSE TypeEmissions(src, d, i, j + 1)

\* left := d.Pos(); if d.Doc != nil { left = min(left, d.Doc.Pos()) }
ValueLeft(d) == IF d.Doc.present THEN min(d.Pos, d.Doc.Pos) ELSE d.Pos

\* right without the trailing comment of the last spec.
ValueRightNoComment(d) == IF d.Rparen # NoPos THEN max(d.End, d.Rparen) ELSE d.End

\* right = d.Rparen, without the IsValid test and without max.
ValueRightRparenOnly(d) == d.Rparen

\* right := d.End(), then the last comment of the last spec, then d.Rparen.
ValueRight(d) ==
    LET last == d.Specs[Len(d.Specs)]
        r1 == IF Len(d.Specs) > 0 /\ last.node = "ValueSpec"
                 /\ last.Comment.present /\ Len(last.Comment.List) > 0
              THEN max(d.End, last.Comment.List[Len(last.Comment.List)].End)
              ELSE d.End
    IN IF d.Rparen # NoPos THEN max(r1, d.Rparen) ELSE r1

\* chunkType := ChunkTypeVar; if d.Tok == token.CONST { chunkType = ChunkTypeConst }
ValueChunkType(d) == IF d.Tok = "const" THEN "const" ELSE "var"

\* One chunk per spec of the declaration, named after the spec.
ValueEmissionsPerSpec(src, d, i) ==
    [j \in 1..Len(d.Specs) |->
        Emission(src, i, j, d.Specs[j].Pos, d.Specs[j].End, ValueChunkType(d),
                 d.Specs[j].Name, "")]

\* case token.VAR, token.CONST
ValueEmissions(src, d, i) ==
    <<Emission(src, i, 0, ValueLeft(d), ValueRight(d), ValueChunkType(d), "", "")>>

\* The chunks one iteration of the declaration loop appends.
DeclEmissions(src, d, i) ==
    IF d.node = "FuncDecl" THEN FuncEmissions(src, d, i)
    ELSE IF d.Tok = "type" THEN TypeEmissions(src, d, i, 1)
    ELSE IF d.Tok \in {"var", "const"} THEN ValueEmissions(src, d, i)
    ELSE <<>>

\* extractChunks is called on a parsed file.
InitExtract ==
    /\ \E f \in Files : xsrc = f.src /\ xdecls = f.Decls
    /\ xi = 1 /\ xchunks = <<>> /\ xlog = <<>> /\ xpc = "range"
    /\ RunIdle
    /\ given = Chunk(<<>>, 0, CHOOSE st \in Statics : st.Type = "")
    /\ heap = <<>> /\ maxTokens = 0 /\ pc = "idle"
    /\ lines = <<>> /\ li = 0
    /\ currentChunk = <<>> /\ currentTokenCount = 0
    /\ words = <<>> /\ wi = 0
    /\ lineChunk = <<>> /\ lineTokenCount = 0
    /\ chunks = <<>>
    /\ ret = <<>> /\ err = FALSE
    /\ calls = 0 /\ counterFailed = FALSE
    /\ emitted = <<>>

\* One iteration of the declaration loop on declaration xi, appending es.
Iterate(es) ==
    /\ xchunks' = AppendTo(xchunks, [k \in 1..Len(es) |-> es[k].chunk])
    /\ xlog' = AppendTo(xlog, [k \in 1..Len(es) |-> es[k].log])
    /\ xi' = xi + 1
    /\ UNCHANGED <<xsrc, xdecls, xpc, svars, rvars>>

\* case *ast.FuncDecl
ExtractFuncDecl ==
    /\ xpc = "range" /\ xi <= Len(xdecls)
    /\ xdecls[xi].node = "FuncDecl"
    /\ Iterate(DeclEmissions(xsrc, xdecls[xi], xi))

\* case *ast.GenDecl, case token.TYPE
ExtractTypeDecl ==
    /\ xpc = "range" /\ xi <= Len(xdecls)
    /\ xdecls[xi].node = "GenDecl" /\ xdecls[xi].Tok = "type"
    /\ Iterate(DeclEmissions(xsrc, xdecls[xi], xi))

\* case *ast.GenDecl, case token.VAR, token.CONST
ExtractValueDecl ==
    /\ xpc = "range" /\ xi <= Len(xdecls)
    /\ xdecls[xi].node = "GenDecl" /\ xdecls[xi].Tok \in {"var", "const"}
    /\ Iterate(DeclEmissions(xsrc, xdecls[xi], xi))

\* case *ast.GenDecl with any other token: no case of the switch applies.
ExtractOtherDecl ==
    /\ xpc = "range" /\ xi <= Len(xdecls)
    /\ xdecls[xi].node = "GenDecl" /\ xdecls[xi].Tok \notin {"type", "var", "const"}
    /\ Iterate(DeclEmissions(xsrc, xdecls[xi], xi))

\* return chunks
ExtractReturn ==
    /\ xpc = "range" /\ xi > Len(xdecls)
    /\ xpc' = "done"
    /\ UNCHANGED <<xsrc, xdecls, xi, xchunks, xlog, svars, rvars>>

NextExtract ==
    \/ ExtractFuncDecl
    \/ ExtractTypeDecl
    \/ ExtractValueDecl
    \/ ExtractOtherDecl
    \/ ExtractReturn

SpecExtract == InitExtract /\ [][NextExtract]_vars

\* -------------------------------------------------- claims: extractChunks

\* extractChunks has returned.
Extracted == xpc = "done"

\* The declaration and the spec chunk k was made from.
DeclOf(k) == xdecls[xlog[k].decl]

SpecOf(k) == DeclOf(k).Specs[xlog[k].spec]

\* The chunks made from declaration i.
ChunksOf(i) == {k \in 1..Len(xlog) : xlog[k].decl = i}

\* p is a prefix of s.
IsPrefix(p, s) == Len(p) <= Len(s) /\ SubSeq(s, 1, Len(p)) = p

\* The 1-based line of position p of the file, counted on the text: the number
\* of lines the text before p splits into.
LineOnText(p) == Len(SplitLines(SubSeq(xsrc, 1, p - 1)))

\* C13: chunks appear in file declaration order: a chunk from declaration i
\* comes before every chunk from a later declaration, and chunks from the specs
\* of one type declaration appear in spec order.
C13_DeclarationOrder ==
    /\ Len(xchunks) = Len(xlog)
    /\ \A k, l \in 1..Len(xlog) :
           k < l => \/ xlog[k].decl < xlog[l].decl
                    \/ xlog[k].decl = xlog[l].decl /\ xlog[k].spec < xlog[l].spec

\* C13 witness: two declarations gave three chunks, two of them from the specs
\* of one type declaration.
C13_Witness ==
    /\ Extracted /\ Len(xdecls) = 2 /\ Len(xchunks) = 3
    /\ xlog[1].decl = 1 /\ xlog[2].decl = 2 /\ xlog[3].decl = 2
    /\ xchunks[2].Name = "U" /\ xchunks[3].Name = "V"

\* C14: every chunk has Start <= End.
C14_StartNotAfterEnd ==
    \A k \in 1..Len(xchunks) : xchunks[k].Start <= xchunks[k].End

\* C14 witness: chunks of a struct with only a spec-level doc comment in a
\* parenthesized group and of an unparenthesized var with a trailing comment.
C14_Witness ==
    /\ Extracted /\ Len(xchunks) = 2
    /\ xchunks[1].Type = "struct" /\ ~DeclOf(1).Doc.present /\ SpecOf(1).Doc.present
    /\ xchunks[1].Start < xchunks[1].End
    /\ xchunks[2].Type = "var" /\ DeclOf(2).Rparen = NoPos
    /\ DeclOf(2).Specs[1].Comment.present
    /\ xchunks[2].Start = xchunks[2].End

\* C15: the content of every chunk is the bytes of the file from its span's
\* left position up to, not including, its right position, and Start and End
\* are the 1-based lines of those two positions.
C15_ContentIsSourceSlice ==
    \A k \in 1..Len(xchunks) :
        /\ xchunks[k].Content = SubSeq(xsrc, xlog[k].left, xlog[k].right - 1)
        /\ xchunks[k].Start = LineOnText(xlog[k].left)
        /\ xchunks[k].End = LineOnText(xlog[k].right)
        /\ xchunks[k].End - xchunks[k].Start = Len(SplitLines(xchunks[k].Content)) - 1

\* C15 witness: a documented method after another declaration, its content
\* running from the doc comment to the closing brace over four lines.
C15_Witness ==
    /\ Extracted /\ Len(xchunks) = 2
    /\ xchunks[2].Type = "method" /\ DeclOf(2).Doc.present
    /\ IsPrefix(DeclDocText, xchunks[2].Content)
    /\ xchunks[2].Content[Len(xchunks[2].Content)] = "}"
    /\ xchunks[2].Start > 2 /\ xchunks[2].End = xchunks[2].Start + 2

\* C16: every var or const declaration, one spec or a parenthesized group,
\* yields exactly one chunk, of kind var or const respectively, with empty
\* name and empty receiver.
C16_OneChunkPerValueDecl ==
    Extracted =>
        \A i \in 1..Len(xdecls) :
            (xdecls[i].node = "GenDecl" /\ xdecls[i].Tok \in {"var", "const"}) =>
                /\ Cardinality(ChunksOf(i)) = 1
                /\ \A k \in ChunksOf(i) :
                       /\ xchunks[k].Type = xdecls[i].Tok
                       /\ xchunks[k].Name = ""
                       /\ xchunks[k].Receiver = ""

\* C16 witness: a parenthesized const group of two specs and an empty var
\* group, one chunk each.
C16_Witness ==
    /\ Extracted /\ Len(xdecls) = 2 /\ Len(xchunks) = 2
    /\ xdecls[1].Tok = "const" /\ Len(xdecls[1].Specs) = 2 /\ xchunks[1].Type = "const"
    /\ xdecls[2].Tok = "var" /\ Len(xdecls[2].Specs) = 0 /\ xchunks[2].Type = "var"

\* The earliest of the declaration's start and the starts of the doc comments
\* that are present.
EarliestStart(d, sp) ==
    LET a == IF d.Doc.present THEN min(d.Pos, d.Doc.Pos) ELSE d.Pos
    IN IF sp.Doc.present THEN min(a, sp.Doc.Pos) ELSE a

\* C17 (as claimed): a struct chunk's span starts at the earliest of the type
\* declaration's start, the declaration's doc comment and the spec's doc
\* comment; with only a spec-level doc comment in a parenthesized group it
\* starts no later than the declaration's own start.
C17_StructStartIsEarliest ==
    \A k \in 1..Len(xchunks) :
        xchunks[k].Type = "struct" =>
            /\ xlog[k].left = EarliestStart(DeclOf(k), SpecOf(k))
            /\ xlog[k].left <= DeclOf(k).Pos

\* C18: a struct chunk whose declaration has a leading doc comment, on the
\* type declaration or, when the declaration has none, on the type spec, has
\* content that begins with that comment's text.
C18_StructDocIsPrefix ==
    \A k \in 1..Len(xchunks) :
        xchunks[k].Type = "struct" =>
            /\ DeclOf(k).Doc.present => IsPrefix(DeclDocText, xchunks[k].Content)
            /\ (~DeclOf(k).Doc.present /\ SpecOf(k).Doc.present) =>
                   IsPrefix(SpecDocText, xchunks[k].Content)

\* C18 witness: one struct chunk led by its declaration's doc comment and one
\* led by its spec's.
C18_Witness ==
    /\ Extracted /\ Len(xchunks) = 2
    /\ xchunks[1].Type = "struct" /\ DeclOf(1).Doc.present
    /\ IsPrefix(DeclDocText, xchunks[1].Content)
    /\ xchunks[2].Type = "struct" /\ ~DeclOf(2).Doc.present /\ SpecOf(2).Doc.present
    /\ IsPrefix(SpecDocText, xchunks[2].Content)

\* The receiver label the claim gives for a receiver type.
ClaimedReceiver(t) ==
    IF t.node = "Ident" THEN "User"
    ELSE IF t.node = "StarExpr" /\ t.X.node = "Ident" THEN "*User"
    ELSE ""

\* C19: a function declaration yields one chunk: a method chunk exactly when
\* its receiver list has at least one entry, else a function chunk with empty
\* receiver; the method's receiver is the name for a named receiver type, "*"
\* and the name for a pointer to a named type, and empty for any other form.
C19_MethodClassification ==
    /\ \A k \in 1..Len(xchunks) :
           DeclOf(k).node = "FuncDecl" =>
               IF DeclOf(k).Recv.present /\ Len(DeclOf(k).Recv.List) >= 1
               THEN /\ xchunks[k].Type = "method"
                    /\ xchunks[k].Receiver = ClaimedReceiver(DeclOf(k).Recv.List[1])
               ELSE xchunks[k].Type = "function" /\ xchunks[k].Receiver = ""
    /\ Extracted =>
           \A i \in 1..Len(xdecls) :
               xdecls[i].node = "FuncDecl" => Cardinality(ChunksOf(i)) = 1

\* C19 witness: a pointer-receiver method and a method on a pointer to an
\* instantiated generic type, the second with an empty receiver.
C19_Witness ==
    /\ Extracted /\ Len(xchunks) = 2
    /\ xchunks[1].Type = "method" /\ xchunks[1].Receiver = "*User"
    /\ xchunks[2].Type = "method" /\ xchunks[2].Receiver = ""
    /\ DeclOf(2).Recv.List[1].node = "StarExpr"

\* Number of struct-typed type specs among specs j.. of a declaration.
RECURSIVE StructSpecs(_, _)
StructSpecs(d, j) ==
    IF j > Len(d.Specs) THEN 0
    ELSE (IF d.Specs[j].node = "TypeSpec" /\ d.Specs[j].Type = "StructType" THEN 1 ELSE 0)
         + StructSpecs(d, j + 1)

\* Chunks the claim counts for one declaration.
ClaimedChunks(d) ==
    IF d.node = "FuncDecl" THEN 1
    ELSE IF d.Tok = "type" THEN StructSpecs(d, 1)
    ELSE IF d.Tok \in {"var", "const"} THEN 1
    ELSE 0

RECURSIVE ClaimedTotal(_)
ClaimedTotal(i) == IF i > Len(xdecls) THEN 0 ELSE ClaimedChunks(xdecls[i]) + ClaimedTotal(i + 1)

\* C20: chunks come only from function declarations, struct-typed type specs
\* and var/const declarations; the number of chunks is the number of those.
C20_OnlyChunkedKinds ==
    /\ \A k \in 1..Len(xchunks) :
           \/ DeclOf(k).node = "FuncDecl"
           \/ DeclOf(k).Tok \in {"var", "const"}
           \/ DeclOf(k).Tok = "type" /\ SpecOf(k).Type = "StructType"
    /\ Extracted => Len(xchunks) = ClaimedTotal(1)

\* C20 witness: an import declaration and a type group holding a named type
\* and a struct give one chunk, the struct's.
C20_Witness ==
    /\ Extracted /\ Len(xdecls) = 2 /\ Len(xchunks) = 1
    /\ xdecls[1].Tok = "import"
    /\ xdecls[2].Tok = "type" /\ Len(xdecls[2].Specs) = 2
    /\ xchunks[1].Type = "struct" /\ xchunks[1].Name = "V"

\* The least element of a non-empty set of positions.
Earliest(S) == CHOOSE x \in S : \A y \in S : x <= y

\* The greatest element of a non-empty set of positions.
Greatest(S) == CHOOSE x \in S : \A y \in S : y <= x

\* The trailing comment groups of the last spec of a declaration.
FinalComments(d) ==
    IF Len(d.Specs) > 0 /\ d.Specs[Len(d.Specs)].Comment.present
    THEN {d.Specs[Len(d.Specs)].Comment.List[c] :
              c \in 1..Len(d.Specs[Len(d.Specs)].Comment.List)}
    ELSE {}

\* The positions the end of a var/const span is the latest of.
ClaimedValueEnds(d) ==
    {d.End}
    \cup (IF d.Rparen # NoPos THEN {d.Rparen} ELSE {})
    \cup {c.End : c \in FinalComments(d)}

\* The positions the start of a span is the earliest of.
ClaimedStarts(d) == {d.Pos} \cup (IF d.Doc.present THEN {d.Doc.Pos} ELSE {})

\* Chunk k was made from a var or const declaration.
IsValueChunk(k) == DeclOf(k).node = "GenDecl" /\ DeclOf(k).Tok \in {"var", "const"}

\* C21: the span of a var/const chunk ends at the latest of the declaration's
\* end, its closing parenthesis and the end of the trailing comment of its last
\* spec, and starts at the earliest of the declaration's start and its doc
\* comment's start; the trailing comment of the last spec lies inside the
\* content whole, and a trailing comment of an earlier spec does not move the
\* end past the declaration's end.
C21_ValueSpan ==
    \A k \in 1..Len(xlog) :
        IsValueChunk(k) =>
            /\ xlog[k].right = Greatest(ClaimedValueEnds(DeclOf(k)))
            /\ xlog[k].left = Earliest(ClaimedStarts(DeclOf(k)))
            /\ \A c \in FinalComments(DeclOf(k)) :
                   /\ xlog[k].left <= c.Pos /\ c.End <= xlog[k].right
                   /\ SubSeq(xchunks[k].Content, c.Pos - xlog[k].left + 1,
                             c.End - xlog[k].left) = LineCommentText
            /\ FinalComments(DeclOf(k)) = {} => xlog[k].right = DeclOf(k).End

\* C21 witness: a documented unparenthesized const whose only spec has a
\* trailing comment, ending after the declaration's end, then a parenthesized
\* var whose first spec, not its last, has a trailing comment.
C21_Witness ==
    /\ Extracted /\ Len(xchunks) = 2
    /\ IsValueChunk(1) /\ DeclOf(1).Doc.present /\ DeclOf(1).Rparen = NoPos
    /\ FinalComments(DeclOf(1)) # {} /\ xlog[1].right > DeclOf(1).End
    /\ xlog[1].left < DeclOf(1).Pos
    /\ IsValueChunk(2) /\ DeclOf(2).Rparen # NoPos /\ Len(DeclOf(2).Specs) = 2
    /\ DeclOf(2).Specs[1].Comment.present /\ FinalComments(DeclOf(2)) = {}
    /\ xlog[2].right = DeclOf(2).End

\* C22: the span of a function or method chunk starts at the earlier of the
\* declaration's start and its doc comment's start and ends at the later of the
\* declaration's end and the doc comment's end; without a doc comment it is
\* exactly the declaration's start and end, and the content is those bytes.
C22_FuncSpan ==
    \A k \in 1..Len(xlog) :
        DeclOf(k).node = "FuncDecl" =>
            /\ xlog[k].left = Earliest(ClaimedStarts(DeclOf(k)))
            /\ xlog[k].right = Greatest({DeclOf(k).End}
                                        \cup (IF DeclOf(k).Doc.present
                                              THEN {DeclOf(k).Doc.End} ELSE {}))
            /\ ~DeclOf(k).Doc.present =>
                   /\ xlog[k].left = DeclOf(k).Pos /\ xlog[k].right = DeclOf(k).End
            /\ xchunks[k].Content = SubSeq(xsrc, xlog[k].left, xlog[k].right - 1)
            /\ DeclOf(k).Doc.present => IsPrefix(DeclDocText, xchunks[k].Content)

\* C22 witness: a documented method, starting at its doc comment, and a
\* function without one.
C22_Witness ==
    /\ Extracted /\ Len(xchunks) = 2
    /\ xchunks[1].Type = "method" /\ DeclOf(1).Doc.present
    /\ xlog[1].left = DeclOf(1).Doc.Pos /\ xlog[1].left < DeclOf(1).Pos
    /\ xlog[1].right = DeclOf(1).End
    /\ xchunks[2].Type = "function" /\ ~DeclOf(2).Doc.present
    /\ xlog[2].left = DeclOf(2).Pos

\* Declaration i is a type declaration the loop has passed.
TypeDeclDone(i) == i < xi /\ xdecls[i].node = "GenDecl" /\ xdecls[i].Tok = "type"

\* Neither the declaration nor any of its specs has a doc comment.
NoDocs(d) == ~d.Doc.present /\ \A j \in 1..Len(d.Specs) : ~d.Specs[j].Doc.present

\* C30: a type declaration with k struct-typed specs gives exactly k struct
\* chunks, in spec order, each named after its own spec and each ending at the
\* end of the whole declaration; without any doc comment the k chunks have the
\* same Start, End and Content, the whole declaration.
C30_StructGroup ==
    \A i \in 1..Len(xdecls) :
        TypeDeclDone(i) =>
            /\ Cardinality(ChunksOf(i)) = StructSpecs(xdecls[i], 1)
            /\ \A k \in ChunksOf(i) :
                   /\ xchunks[k].Type = "struct"
                   /\ SpecOf(k).Type = "StructType"
                   /\ xchunks[k].Name = SpecOf(k).Name
                   /\ xlog[k].right = xdecls[i].End
                   /\ xchunks[k].End = LineOnText(xdecls[i].End)
            /\ \A k, l \in ChunksOf(i) : k < l => xlog[k].spec < xlog[l].spec
            /\ NoDocs(xdecls[i]) =>
                   \A k \in ChunksOf(i) :
                       /\ xchunks[k].Start = LineOnText(xdecls[i].Pos)
                       /\ xchunks[k].Content
                              = SubSeq(xsrc, xdecls[i].Pos, xdecls[i].End - 1)

\* C30 witness: a group of two structs without doc comments gave two chunks,
\* U then V, with the same lines and the same content.
C30_Witness ==
    /\ Extracted /\ Len(xdecls) = 1 /\ Len(xdecls[1].Specs) = 2
    /\ NoDocs(xdecls[1]) /\ Len(xchunks) = 2
    /\ xchunks[1].Name = "U" /\ xchunks[2].Name = "V"
    /\ xchunks[1].Content = xchunks[2].Content
    /\ xchunks[1].Start = xchunks[2].Start /\ xchunks[1].End = xchunks[2].End
    /\ xchunks[1].Start < xchunks[1].End

\* ------------------------------------------- claims: the loops of splitChunk

\* The sum of the counts of lines ls.
RECURSIVE SumLineCounts(_)
SumLineCounts(ls) ==
    IF ls = <<>> THEN 0 ELSE countTokens(Head(ls)) + SumLineCounts(Tail(ls))

\* s has no newline: it lies on one line.
OneLine(s) == \A i \in 1..Len(s) : s[i] # "\n"

\* The line the line loop has just finished is oversized.
AfterOversizedLine ==
    /\ pc = "lines" /\ li > 1 /\ li - 1 <= Len(lines)
    /\ countTokens(lines[li - 1]) > maxTokens

\* C24: a line whose own count exceeds the budget shares no sub-chunk with
\* another line: while its words are processed the accumulator is empty with
\* count zero, the lines before it having been emitted; when the loop moves to
\* the next line its last word group has been emitted and the accumulator is
\* still empty with count zero; and every emission is either made of lines
\* that each fit the budget or lies on one line.
C24_OversizedLineAlone ==
    /\ pc = "words" => currentChunk = <<>> /\ currentTokenCount = 0
    /\ AfterOversizedLine =>
           /\ currentChunk = <<>> /\ currentTokenCount = 0
           /\ lineChunk # <<>> =>
                  emitted # <<>> /\ emitted[Len(emitted)].Content = lineChunk
    /\ \A k \in 1..Len(emitted) :
           \/ OneLine(emitted[k].Content)
           \/ \A j \in 1..Len(SplitLines(emitted[k].Content)) :
                  countTokens(SplitLines(emitted[k].Content)[j]) <= maxTokens

\* C24 witness: a fitting line then an oversized one; the first was emitted
\* alone, then the word groups of the second, and the accumulator is empty.
C24_Witness ==
    /\ AfterOversizedLine /\ li = 3
    /\ lines[1] # <<>> /\ countTokens(lines[1]) <= maxTokens
    /\ Len(emitted) >= 3 /\ emitted[1].Content = lines[1]
    /\ emitted[Len(emitted)].Content = lineChunk
    /\ currentChunk = <<>> /\ currentTokenCount = 0

\* C27: whenever splitChunk returns without error, it returns at least one
\* chunk.
C27_AtLeastOneChunk == ReturnedOk => Len(ret) >= 1

\* C28: on the splitting path, at the end of every iteration of the line loop
\* the running count is the sum of the counts of the lines in the accumulator
\* and is at most the budget, and an empty accumulator has count zero.
C28_RunningCount ==
    pc = "lines" =>
        /\ currentTokenCount = SumLineCounts(SplitLines(currentChunk))
        /\ currentTokenCount <= maxTokens
        /\ currentChunk = <<>> => currentTokenCount = 0

\* C28 witness: two non-empty lines are in the accumulator after an earlier
\* emission.
C28_Witness ==
    /\ pc = "lines" /\ SplitPath /\ emitted # <<>>
    /\ Len(SplitLines(currentChunk)) = 2
    /\ \A j \in 1..2 : SplitLines(currentChunk)[j] # <<>>
    /\ currentTokenCount >= 2

\* C29: on the splitting path no emission has empty content, and no returned
\* chunk has.
C29_NoEmptyEmission ==
    /\ \A k \in 1..Len(emitted) : emitted[k].Content # <<>>
    /\ (ReturnedOk /\ SplitPath) => \A i \in 1..Len(ret) : Returned(i).Content # <<>>

\* C29 witness: every line fits the budget, and adding a line that would
\* exceed it emitted the accumulator, which held an earlier line.
C29_Witness ==
    /\ pc = "lines" /\ SplitPath /\ li = 3
    /\ \A j \in 1..Len(lines) : countTokens(lines[j]) <= maxTokens
    /\ Len(emitted) = 1 /\ emitted[1].Content = lines[1]
    /\ currentChunk = lines[2]

\* ------------------------------------------------------------ run: the code

\* Most chunks extractChunks returns for the input file.
MaxChunks == 2

\* args[0]
inputFile == "main.go"

\* The values of the --output flag: the default and a file name.
OutputFiles == {"", "out.jsonl"}

\* Contents of extracted chunks: one line under every positive budget, two
\* lines of which the second is over budgets 1, and one line of two words.
RunContents == {<<"a">>, <<"a", "\n", "b">>, <<"b", " ", "a">>}

\* A chunk as extractChunks builds it: Size and Path are not set.
ExtractedChunk(content) ==
    Chunk(content, 0, CHOOSE st \in Statics : st.Type = "method")

\* The lists of at most n chunks.
RECURSIVE ChunkLists(_)
ChunkLists(n) ==
    IF n = 0 THEN {<<>>}
    ELSE ChunkLists(n - 1)
         \cup {Append(cs, ExtractedChunk(c)) : cs \in ChunkLists(n - 1), c \in RunContents}

\* The input files: one os.ReadFile fails on, one the parser rejects, and the
\* files that parse, with what extractChunks returns for them.
RunFiles ==
    {[readable |-> FALSE, parses |-> FALSE, extracted |-> <<>>],
     [readable |-> TRUE, parses |-> FALSE, extracted |-> <<>>]}
    \cup {[readable |-> TRUE, parses |-> TRUE, extracted |-> cs] : cs \in ChunkLists(MaxChunks)}

\* processFile(path): the chunks and the error; a nil slice is <<>>, a nil
\* error "".
processFile(file) ==
    IF ~file.readable THEN [chunks |-> <<>>, err |-> "error reading file"]
    ELSE IF ~file.parses THEN [chunks |-> <<>>, err |-> "error parsing file"]
    ELSE [chunks |-> file.extracted, err |-> ""]

\* The error of processFile is ignored.
FailedNever(e) == FALSE

\* err != nil
Failed(e) == e # ""

\* A failed count leaves a negative size.
SizedMinusOne(r) == IF r.err THEN 0 - 1 ELSE r.n

\* tokenCount, err := countTokens(..); if err != nil { tokenCount = 0 }
Sized(r) == IF r.err THEN 0 ELSE r.n

\* chunkSize > 0
Limited(n) == n > 0

\* The results of later chunks are put first.
PrependSplit(all, split) == split \o all

\* splitChunks = append(splitChunks, split...)
AppendSplit(all, split) == all \o split

\* No splitChunk call is in progress.
SplitIdle ==
    /\ given = Chunk(<<>>, 0, CHOOSE st \in Statics : st.Type = "")
    /\ heap = <<>> /\ maxTokens = 0 /\ pc = "idle"
    /\ lines = <<>> /\ li = 0
    /\ currentChunk = <<>> /\ currentTokenCount = 0
    /\ words = <<>> /\ wi = 0
    /\ lineChunk = <<>> /\ lineTokenCount = 0
    /\ chunks = <<>>
    /\ ret = <<>> /\ err = FALSE
    /\ calls = 0 /\ counterFailed = FALSE
    /\ emitted = <<>>

\* run is called on a file, with its two flags.
InitRun ==
    /\ ExtractIdle
    /\ SplitIdle
    /\ rfile \in RunFiles
    /\ chunkSize \in Budgets
    /\ outputFile \in OutputFiles
    /\ rpc = "process"
    /\ rheap = <<>> /\ rchunks = <<>> /\ ri = 0 /\ splitChunks = <<>>
    /\ rret = "running" /\ opened = FALSE /\ output = <<>>
    /\ sized = <<>> /\ results = <<>> /\ written = <<>>

\* return fmt.Errorf(msg ..) or return nil
RunReturns(e) == rpc' = "done" /\ rret' = e

\* chunks, err := processFile(inputFile); if err != nil { return .. }
RunProcessFile ==
    /\ rpc = "process"
    /\ LET r == processFile(rfile) IN
       IF Failed(r.err)
       THEN /\ RunReturns("error processing file")
            /\ UNCHANGED <<rheap, rchunks, ri>>
       ELSE /\ rheap' = r.chunks
            /\ rchunks' = [k \in 1..Len(r.chunks) |-> k]
            /\ ri' = 1
            /\ rpc' = "size"
            /\ UNCHANGED rret
    /\ UNCHANGED <<rfile, chunkSize, outputFile, splitChunks, opened, output, sized,
                   results, written, svars, xvars>>

\* One iteration of "for i := range chunks".
RunSize ==
    /\ rpc = "size" /\ ri <= Len(rchunks)
    /\ \E r \in CountOutcomes(rheap[rchunks[ri]].Content) :
        /\ rheap' = [rheap EXCEPT ![rchunks[ri]].Size = Sized(r)]
        /\ sized' = Append(sized, r.err)
    /\ ri' = ri + 1
    /\ UNCHANGED <<rfile, chunkSize, outputFile, rpc, rchunks, splitChunks, rret, opened,
                   output, results, written, svars, xvars>>

\* After the sizing loop: if chunkSize > 0 { var splitChunks []*Chunk .. }
RunSizeDone ==
    /\ rpc = "size" /\ ri > Len(rchunks)
    /\ rpc' = IF Limited(chunkSize) THEN "split" ELSE "create"
    /\ ri' = 1
    /\ splitChunks' = <<>>
    /\ UNCHANGED <<rfile, chunkSize, outputFile, rheap, rchunks, rret, opened, output,
                   sized, results, written, svars, xvars>>

\* split, err := splitChunk(chunk, chunkSize): the call is entered.  The
\* callee's address 1, its parameter, is the caller's record rchunks[ri].
RunCallSplit ==
    /\ rpc = "split" /\ ri <= Len(rchunks)
    /\ rpc' = "call"
    /\ given' = rheap[rchunks[ri]]
    /\ heap' = <<rheap[rchunks[ri]]>>
    /\ maxTokens' = chunkSize
    /\ pc' = "entry"
    /\ lines' = <<>> /\ li' = 0
    /\ currentChunk' = <<>> /\ currentTokenCount' = 0
    /\ words' = <<>> /\ wi' = 0
    /\ lineChunk' = <<>> /\ lineTokenCount' = 0
    /\ chunks' = <<>>
    /\ ret' = <<>> /\ err' = FALSE
    /\ calls' = 0 /\ counterFailed' = FALSE
    /\ emitted' = <<>>
    /\ UNCHANGED <<rfile, chunkSize, outputFile, rheap, rchunks, ri, splitChunks, rret,
                   opened, output, sized, results, written, xvars>>

\* The caller's address of the callee's address p: the parameter is the
\* caller's record, any record the callee allocated is new to the caller.
CallerAddress(p) == IF p = chunk THEN rchunks[ri] ELSE Len(rheap) + p - 1

\* The call returns: what it wrote through its parameter is in the caller's
\* record; if err != nil { return .. }; splitChunks = append(splitChunks, split...)
RunSplitReturn ==
    /\ rpc = "call" /\ pc = "done"
    /\ rheap' = [rheap EXCEPT ![rchunks[ri]] = heap[chunk]] \o SubSeq(heap, 2, Len(heap))
    /\ IF err
       THEN /\ RunReturns("error splitting chunk")
            /\ UNCHANGED <<ri, splitChunks, results>>
       ELSE LET split == [k \in 1..Len(ret) |-> CallerAddress(ret[k])] IN
            /\ splitChunks' = AppendSplit(splitChunks, split)
            /\ results' = Append(results, [of |-> rchunks[ri], split |-> split])
            /\ ri' = ri + 1
            /\ rpc' = "split"
            /\ UNCHANGED rret
    /\ UNCHANGED <<rfile, chunkSize, outputFile, rchunks, opened, output, sized, written,
                   svars, xvars>>

\* After the splitting loop: chunks = splitChunks
RunSplitDone ==
    /\ rpc = "split" /\ ri > Len(rchunks)
    /\ rchunks' = splitChunks
    /\ ri' = 1
    /\ rpc' = "create"
    /\ UNCHANGED <<rfile, chunkSize, outputFile, rheap, splitChunks, rret, opened, output,
                   sized, results, written, svars, xvars>>

\* output = os.Stdout, or os.Create(outputFile), which can fail.
RunCreate ==
    /\ rpc = "create"
    /\ IF outputFile = ""
       THEN rpc' = "write" /\ UNCHANGED <<rret, opened>>
       ELSE \E e \in {"", "create failed"} :
                IF Failed(e)
                THEN RunReturns("error creating output file") /\ UNCHANGED opened
                ELSE rpc' = "write" /\ opened' = TRUE /\ UNCHANGED rret
    /\ ri' = 1
    /\ UNCHANGED <<rfile, chunkSize, outputFile, rheap, rchunks, splitChunks, output,
                   sized, results, written, svars, xvars>>

\* One iteration of "for _, chunk := range chunks": chunk.Path = inputFile and
\* encoder.Encode(chunk), which can fail.
RunWrite ==
    /\ rpc = "write" /\ ri <= Len(rchunks)
    /\ rheap' = [rheap EXCEPT ![rchunks[ri]].Path = inputFile]
    /\ \E e \in {"", "encode failed"} :
           IF Failed(e)
           THEN /\ RunReturns("error writing chunk")
                /\ UNCHANGED <<ri, output, written>>
           ELSE /\ output' = Append(output, rheap'[rchunks[ri]])
                /\ written' = Append(written, rchunks[ri])
                /\ ri' = ri + 1
                /\ UNCHANGED <<rpc, rret>>
    /\ UNCHANGED <<rfile, chunkSize, outputFile, rchunks, splitChunks, opened, sized,
                   results, svars, xvars>>

\* After the writing loop: return nil
RunReturn ==
    /\ rpc = "write" /\ ri > Len(rchunks)
    /\ RunReturns("nil")
    /\ UNCHANGED <<rfile, chunkSize, outputFile, rheap, rchunks, ri, splitChunks, opened,
                   output, sized, results, written, svars, xvars>>

NextRun ==
    \/ RunProcessFile
    \/ RunSize
    \/ RunSizeDone
    \/ RunCallSplit
    \/ CheckLimit
    \/ CountContent
    \/ NextLine
    \/ NextWord
    \/ EndWords
    \/ EndLines
    \/ RunSplitReturn
    \/ RunSplitDone
    \/ RunCreate
    \/ RunWrite
    \/ RunReturn

SpecRun == InitRun /\ [][NextRun]_vars

\* -------------------------------------------------------------- claims: run

\* run has returned nil.
RunOk == rpc = "done" /\ rret = "nil"

\* The input file cannot be read or does not parse.
BadFile == ~rfile.readable \/ ~rfile.parses

\* All the pointer lists of rs, one after the other.
RECURSIVE Flatten(_)
Flatten(rs) == IF rs = <<>> THEN <<>> ELSE Head(rs).split \o Flatten(Tail(rs))

\* C23: when the input file cannot be read or does not parse, processFile
\* returns an error and no chunk list, and run returns "error processing file"
\* without having sized or split a chunk, created the output file or written a
\* line.
C23_BadFileFailsFirst ==
    BadFile =>
        /\ processFile(rfile).err # "" /\ processFile(rfile).chunks = <<>>
        /\ rpc \in {"process", "done"}
        /\ rpc = "done" => rret = "error processing file"
        /\ rheap = <<>> /\ rchunks = <<>>
        /\ sized = <<>> /\ results = <<>> /\ pc = "idle"
        /\ ~opened /\ output = <<>> /\ written = <<>>

\* C23 witness: run has returned on a file that is read but does not parse,
\* with an output file asked for and a chunk size given.
C23_Witness ==
    /\ rpc = "done" /\ rfile.readable /\ ~rfile.parses
    /\ outputFile # "" /\ chunkSize > 0
    /\ rret = "error processing file" /\ ~opened

\* C25: a token-counting failure in the sizing pass sets that chunk's Size to
\* 0 and the pass goes on to the remaining chunks: once past the pass every
\* chunk has been sized; and without a chunk-size limit a run that returns nil
\* has written every chunk, those whose count failed with Size 0 and the
\* others with the count of their content.
C25_CountFailureGivesZero ==
    /\ \A i \in 1..Len(sized) :
           rpc = "size" => rheap[i].Size = (IF sized[i] THEN 0
                                            ELSE countTokens(rheap[i].Content))
    /\ (~BadFile /\ rpc \notin {"process", "size"}) => Len(sized) = Len(rfile.extracted)
    /\ (RunOk /\ ~Limited(chunkSize)) =>
           /\ Len(output) = Len(rfile.extracted)
           /\ \A i \in 1..Len(output) :
                  /\ output[i].Content = rfile.extracted[i].Content
                  /\ output[i].Size = (IF sized[i] THEN 0
                                       ELSE countTokens(output[i].Content))

\* C25 witness: no limit; counting failed on the first of two chunks only;
\* both were written, the first with Size 0.
C25_Witness ==
    /\ RunOk /\ chunkSize = 0 /\ Len(output) = 2
    /\ sized = <<TRUE, FALSE>>
    /\ output[1].Size = 0 /\ output[2].Size > 0

\* C26: a run with a positive chunk size that returns nil has written, in
\* order, the pointers splitChunk returned for the first extracted chunk, then
\* those for the second, and so on, each list in the order splitChunk gave it;
\* with a chunk size <= 0 it has written exactly the extracted chunks in order.
C26_OutputIsConcatenation ==
    RunOk =>
        /\ Len(output) = Len(written)
        /\ IF chunkSize > 0
           THEN /\ Len(results) = Len(rfile.extracted)
                /\ \A i \in 1..Len(results) : results[i].of = i
                /\ written = Flatten(results)
           ELSE /\ written = [k \in 1..Len(rfile.extracted) |-> k]
                /\ \A k \in 1..Len(output) :
                       output[k].Content = rfile.extracted[k].Content

\* C26 witness: with a positive chunk size the first of two chunks was split
\* in two and the second was not split; three lines were written.
C26_Witness ==
    /\ RunOk /\ chunkSize > 0 /\ Len(results) = 2
    /\ Len(results[1].split) = 2 /\ Len(results[2].split) = 1
    /\ results[1].split # results[2].split
    /\ Len(output) = 3

=============================================================================
